---- MODULE Spec2Model ----
(***************************************************************************)
(* Model of generate_fake_data.py: the sizing prompts, the partition of    *)
(* TOTAL_ROWS over num_processes worker processes, the workers writing     *)
(* their temporary CSV files, the sequential join and combine_files.       *)
(*                                                                         *)
(* A line of a CSV file is a record [kind, src, file, n]: kind is          *)
(* "header" or "row"; src tells who wrote it ("run": a worker of this run, *)
(* "stale": something that was in temp_files before the run, "out": the    *)
(* combiner); file is the temp file index it was written to; n is the      *)
(* global row number (start_row + position) of a row.                      *)
(***************************************************************************)
EXTENDS Integers, Sequences, FiniteSets, TLC

\* ---- bounds of the model
MaxCores == 4
MaxRows == 3
MaxStaleRows == 1
MaxInputLen == 2
MaxRejected == 2
MaxPartRows == 10
MaxPartCores == 5
MaxCombineCalls == 2

\* ---- program constants
APPROX_BYTES_PER_ROW == 500

VARIABLES
    pc,            \* position of the main script
    choice,        \* user_choice: "" until get_user_choice returns
    lastInput,     \* the last text read by input()
    rejected,      \* number of error messages printed by the prompts
    TOTAL_ROWS,    \* 0 until get_number_of_rows returns
    total_cores,   \* cpu_count()
    i,             \* index of the spawn loop
    processes,     \* the list of started Process objects, with their state
    j,             \* index of the join loop (1-based position in processes)
    files,         \* temp_files: index -> content, <<>> is an empty file
    present,       \* the set of indices whose temp file exists
    preexisting,   \* the indices whose temp file existed before the run
    openBy,        \* index -> the processes holding the file open (0: main,
                   \* p: the p-th started worker)
    k,             \* index of the combine loop
    output,        \* content of OUTPUT_FILE_NAME (<<>>: not written)
    warnings,      \* the indices combine_files warned about, in order
    combineCalls,  \* number of calls of combine_files
    prevOutput     \* content of the output file when combine_files was called

vars == <<pc, choice, lastInput, rejected, TOTAL_ROWS, total_cores, i, processes,
          j, files, present, preexisting, openBy, k, output, warnings,
          combineCalls, prevOutput>>

sizingVars == <<choice, lastInput, rejected>>
workerVars == <<processes, files, present, openBy>>
combineVars == <<k, output, warnings, combineCalls, prevOutput>>

\* ---- helpers
Max(a, b) == IF a >= b THEN a ELSE b

Min(a, b) == IF a <= b THEN a ELSE b

\* ---- input() text and int()
DigitChars == <<"0", "1", "2", "3", "4", "5", "6", "7", "8", "9">>

Digits == {DigitChars[d] : d \in 1..Len(DigitChars)}

\* the characters the modelled input texts are made of
Alphabet == {"0", "1", "2", "-", "a"}

Inputs == UNION {[1..n -> Alphabet] : n \in 0..MaxInputLen}

DigitVal(c) == (CHOOSE d \in 1..Len(DigitChars) : DigitChars[d] = c) - 1

RECURSIVE DigitsVal(_)
DigitsVal(s) ==
    IF s = <<>> THEN 0
    ELSE 10 * DigitsVal(SubSeq(s, 1, Len(s) - 1)) + DigitVal(s[Len(s)])

AllDigits(s) == Len(s) >= 1 /\ \A x \in 1..Len(s) : s[x] \in Digits

\* int(text) raises ValueError unless text is an optional sign and digits
IsInt(s) == AllDigits(s) \/ (Len(s) >= 2 /\ s[1] = "-" /\ AllDigits(Tail(s)))

ParseInt(s) == IF s[1] = "-" THEN 0 - DigitsVal(Tail(s)) ELSE DigitsVal(s)

\* ---- get_user_choice
GetUserChoice ==
    /\ pc = "get_choice"
    /\ \E inp \in Inputs :
        /\ lastInput' = inp
        /\ IF inp \in {<<"1">>, <<"2">>}
           THEN /\ choice' = inp[1]
                /\ pc' = "get_rows"
                /\ rejected' = rejected
           ELSE /\ rejected < MaxRejected
                /\ rejected' = rejected + 1
                /\ UNCHANGED <<choice, pc>>
    /\ UNCHANGED <<TOTAL_ROWS, total_cores, i, j>>
    /\ UNCHANGED workerVars
    /\ UNCHANGED <<preexisting>>
    /\ UNCHANGED combineVars

EstimatedRowsDecimal(size_mb) == (size_mb * 1000 * 1000) \div APPROX_BYTES_PER_ROW

\* int(target_bytes / APPROX_BYTES_PER_ROW): the quotient is exact in a double
\* far beyond the sizes modelled, and int() truncates it
EstimatedRows(size_mb) == (size_mb * 1024 * 1024) \div APPROX_BYTES_PER_ROW

\* ---- get_number_of_rows
GetNumberOfRows ==
    /\ pc = "get_rows"
    /\ \E inp \in Inputs :
        /\ lastInput' = inp
        /\ IF IsInt(inp) /\ ParseInt(inp) > 0
           THEN /\ TOTAL_ROWS' = IF choice = "1" THEN ParseInt(inp)
                                 ELSE EstimatedRows(ParseInt(inp))
                /\ pc' = "spawn"
                /\ rejected' = rejected
           ELSE /\ rejected < MaxRejected
                /\ rejected' = rejected + 1
                /\ UNCHANGED <<TOTAL_ROWS, pc>>
    /\ UNCHANGED <<choice, total_cores, i, j>>
    /\ UNCHANGED workerVars
    /\ UNCHANGED <<preexisting>>
    /\ UNCHANGED combineVars

\* ---- partitioning
num_processes == Max(1, total_cores - 1)

chunk_size_floor == TOTAL_ROWS \div num_processes

\* math.ceil(TOTAL_ROWS / num_processes)
chunk_size == (TOTAL_ROWS + num_processes - 1) \div num_processes

StartRow(w) == w * chunk_size

RowsWithoutMin(w) == chunk_size

RowsForThisProcess(w) == Min(chunk_size, TOTAL_ROWS - StartRow(w))

TempFilenameShared(w) == 0

\* f'temp_part_{i}.csv', named by its index
TempFilename(w) == w

AfterSpawn(w) == IF w + 1 >= num_processes THEN "join" ELSE "spawn"

\* one iteration of the spawn loop whose chunk is empty: continue
SpawnSkip ==
    /\ pc = "spawn"
    /\ i < num_processes
    /\ RowsForThisProcess(i) <= 0
    /\ i' = i + 1
    /\ pc' = AfterSpawn(i)
    /\ UNCHANGED <<TOTAL_ROWS, total_cores, j, preexisting>>
    /\ UNCHANGED sizingVars
    /\ UNCHANGED workerVars
    /\ UNCHANGED combineVars

\* one iteration of the spawn loop that starts a process
SpawnStart ==
    /\ pc = "spawn"
    /\ i < num_processes
    /\ RowsForThisProcess(i) > 0
    /\ processes' = Append(processes,
                           [start_row |-> StartRow(i),
                            num_rows |-> RowsForThisProcess(i),
                            temp_filename |-> TempFilename(i),
                            at |-> "start",
                            created |-> FALSE,
                            written |-> 0])
    /\ i' = i + 1
    /\ pc' = AfterSpawn(i)
    /\ UNCHANGED <<TOTAL_ROWS, total_cores, j, preexisting>>
    /\ UNCHANGED sizingVars
    /\ UNCHANGED <<files, present, openBy>>
    /\ UNCHANGED combineVars

\* ---- temp files
Indices == 0..(num_processes - 1)

HeaderLine(who, f) == [kind |-> "header", src |-> who, file |-> f, n |-> 0]

RowLine(who, f, r) == [kind |-> "row", src |-> who, file |-> f, n |-> r]

\* what a complete generate_chunk leaves: the header and rows first..first+r-1
WrittenFile(who, f, first, r) ==
    <<HeaderLine(who, f)>> \o [x \in 1..r |-> RowLine(who, f, first + x - 1)]

Workers == 1..Len(processes)

Live == {"start", "opened", "rows"}

Terminated(p) == processes[p].at \in {"exited", "crashed"}

SetAt(p, where) == [processes EXCEPT ![p].at = where]

\* ---- generate_chunk
\* open(temp_filepath, 'w'): creates the file, or truncates the one there
WorkerOpen(p) ==
    /\ processes[p].at = "start"
    /\ LET f == processes[p].temp_filename IN
        /\ files' = [files EXCEPT ![f] = <<>>]
        /\ present' = present \cup {f}
        /\ openBy' = [openBy EXCEPT ![f] = @ \cup {p}]
    /\ processes' = [processes EXCEPT ![p].at = "opened", ![p].created = TRUE]
    /\ UNCHANGED <<pc, TOTAL_ROWS, total_cores, i, j, preexisting>>
    /\ UNCHANGED sizingVars
    /\ UNCHANGED combineVars

\* writer.writeheader()
WorkerWriteHeader(p) ==
    /\ processes[p].at = "opened"
    /\ LET f == processes[p].temp_filename IN
        files' = [files EXCEPT ![f] = Append(@, HeaderLine("run", f))]
    /\ processes' = SetAt(p, "rows")
    /\ UNCHANGED <<pc, TOTAL_ROWS, total_cores, i, j, preexisting, present, openBy>>
    /\ UNCHANGED sizingVars
    /\ UNCHANGED combineVars

\* one iteration of the row loop: writer.writerow(create_pii_record(fake))
WorkerWriteRow(p) ==
    /\ processes[p].at = "rows"
    /\ processes[p].written < processes[p].num_rows
    /\ LET f == processes[p].temp_filename
           r == processes[p].start_row + processes[p].written
       IN  files' = [files EXCEPT ![f] = Append(@, RowLine("run", f, r))]
    /\ processes' = [processes EXCEPT ![p].written = @ + 1]
    /\ UNCHANGED <<pc, TOTAL_ROWS, total_cores, i, j, preexisting, present, openBy>>
    /\ UNCHANGED sizingVars
    /\ UNCHANGED combineVars

\* the row loop ends, the with block closes the file, the process exits
WorkerExit(p) ==
    /\ processes[p].at = "rows"
    /\ processes[p].written >= processes[p].num_rows
    /\ openBy' = [openBy EXCEPT ![processes[p].temp_filename] = @ \ {p}]
    /\ processes' = SetAt(p, "exited")
    /\ UNCHANGED <<pc, TOTAL_ROWS, total_cores, i, j, preexisting, files, present>>
    /\ UNCHANGED sizingVars
    /\ UNCHANGED combineVars

\* an uncaught failure anywhere in generate_chunk: the process dies, its file
\* (if it was created) stays as written so far
WorkerCrash(p) ==
    /\ processes[p].at \in Live
    /\ openBy' = [openBy EXCEPT ![processes[p].temp_filename] = @ \ {p}]
    /\ processes' = SetAt(p, "crashed")
    /\ UNCHANGED <<pc, TOTAL_ROWS, total_cores, i, j, preexisting, files, present>>
    /\ UNCHANGED sizingVars
    /\ UNCHANGED combineVars

\* a call inside generate_chunk that never returns
WorkerHang(p) ==
    /\ processes[p].at \in Live
    /\ processes' = SetAt(p, "hung")
    /\ UNCHANGED <<pc, TOTAL_ROWS, total_cores, i, j, preexisting, files, present, openBy>>
    /\ UNCHANGED sizingVars
    /\ UNCHANGED combineVars

\* ---- the join loop
JoinWithoutWaiting(p) == TRUE

\* process.join() returns once the process has terminated
JoinReturns(p) == Terminated(p)

JoinOne ==
    /\ pc = "join"
    /\ j <= Len(processes)
    /\ JoinReturns(j)
    /\ j' = j + 1
    /\ UNCHANGED <<pc, TOTAL_ROWS, total_cores, i, preexisting>>
    /\ UNCHANGED sizingVars
    /\ UNCHANGED workerVars
    /\ UNCHANGED combineVars

JoinDone ==
    /\ pc = "join"
    /\ j > Len(processes)
    /\ pc' = "combine"
    /\ UNCHANGED <<TOTAL_ROWS, total_cores, i, j, preexisting>>
    /\ UNCHANGED sizingVars
    /\ UNCHANGED workerVars
    /\ UNCHANGED combineVars

\* ---- combine_files
OpenOutputAppend(old) == Append(old, HeaderLine("out", 0 - 1))

\* open(final_filename, 'w') and writer.writeheader()
OpenOutput(old) == <<HeaderLine("out", 0 - 1)>>

CombineFilenameOffByOne(x) == x + 1

\* f'temp_part_{i}.csv' as combine_files names it
CombineFilename(x) == x

DictRowsWithHeader(content) == content

\* csv.DictReader: the first line gives the field names, the others are rows
DictRows(content) == IF content = <<>> THEN <<>> ELSE Tail(content)

AfterCombine(x) == IF x + 1 >= num_processes THEN "done" ELSE "comb_loop"

CombineStart ==
    /\ pc = "combine"
    /\ prevOutput' = output
    /\ output' = OpenOutput(output)
    /\ combineCalls' = combineCalls + 1
    /\ warnings' = <<>>
    /\ k' = 0
    /\ pc' = "comb_loop"
    /\ UNCHANGED <<TOTAL_ROWS, total_cores, i, j, preexisting>>
    /\ UNCHANGED sizingVars
    /\ UNCHANGED workerVars

\* open(temp_filepath, 'r') succeeds
CombineOpenTemp ==
    /\ pc = "comb_loop"
    /\ CombineFilename(k) \in present
    /\ openBy' = [openBy EXCEPT ![CombineFilename(k)] = @ \cup {0}]
    /\ pc' = "comb_copy"
    /\ UNCHANGED <<TOTAL_ROWS, total_cores, i, j, preexisting>>
    /\ UNCHANGED sizingVars
    /\ UNCHANGED <<processes, files, present>>
    /\ UNCHANGED combineVars

\* open(temp_filepath, 'r') raises FileNotFoundError: warn and go on
CombineMissing ==
    /\ pc = "comb_loop"
    /\ CombineFilename(k) \notin present
    /\ warnings' = Append(warnings, k)
    /\ k' = k + 1
    /\ pc' = AfterCombine(k)
    /\ UNCHANGED <<TOTAL_ROWS, total_cores, i, j, preexisting>>
    /\ UNCHANGED sizingVars
    /\ UNCHANGED workerVars
    /\ UNCHANGED <<output, combineCalls, prevOutput>>

\* the rows are copied, the file is closed and removed
CombineCopy ==
    /\ pc = "comb_copy"
    /\ LET f == CombineFilename(k) IN
        /\ output' = output \o DictRows(files[f])
        /\ files' = [files EXCEPT ![f] = <<>>]
        /\ present' = present \ {f}
        /\ openBy' = [openBy EXCEPT ![f] = @ \ {0}]
    /\ k' = k + 1
    /\ pc' = AfterCombine(k)
    /\ UNCHANGED <<TOTAL_ROWS, total_cores, i, j, preexisting, processes>>
    /\ UNCHANGED sizingVars
    /\ UNCHANGED <<warnings, combineCalls, prevOutput>>

\* combine_files called again with the same num_processes
CombineAgain ==
    /\ pc = "done"
    /\ combineCalls < MaxCombineCalls
    /\ pc' = "combine"
    /\ UNCHANGED <<TOTAL_ROWS, total_cores, i, j, preexisting>>
    /\ UNCHANGED sizingVars
    /\ UNCHANGED workerVars
    /\ UNCHANGED combineVars

\* ---- specifications
NoFiles == [f \in Indices |-> <<>>]

NotOpen == [f \in Indices |-> {}]

\* the script from the call of combine_files on, over any content of temp_files
InitCombine ==
    /\ pc = "combine"
    /\ choice = "1"
    /\ TOTAL_ROWS \in 1..MaxRows
    /\ lastInput = <<DigitChars[TOTAL_ROWS + 1]>>
    /\ rejected = 0
    /\ total_cores \in 1..MaxCores
    /\ i = num_processes
    /\ processes = <<>>
    /\ j = 1
    /\ present \in SUBSET Indices
    /\ \E sizes \in [Indices -> 0..MaxRows] :
          files = [f \in Indices |->
                     IF f \in present THEN WrittenFile("run", f, 0, sizes[f])
                     ELSE <<>>]
    /\ preexisting = {}
    /\ openBy = NotOpen
    /\ k = 0
    /\ output = <<>>
    /\ warnings = <<>>
    /\ combineCalls = 0
    /\ prevOutput = <<>>

NextCombine == CombineStart \/ CombineOpenTemp \/ CombineMissing \/ CombineCopy
               \/ CombineAgain

SpecCombine == InitCombine /\ [][NextCombine]_vars

\* the prompts alone
InitSizing ==
    /\ pc = "get_choice"
    /\ choice = ""
    /\ lastInput = <<>>
    /\ rejected = 0
    /\ TOTAL_ROWS = 0
    /\ total_cores \in 1..MaxCores
    /\ i = 0
    /\ processes = <<>>
    /\ j = 1
    /\ files = NoFiles
    /\ present = {}
    /\ preexisting = {}
    /\ openBy = NotOpen
    /\ k = 0
    /\ output = <<>>
    /\ warnings = <<>>
    /\ combineCalls = 0
    /\ prevOutput = <<>>

NextSizing == GetUserChoice \/ GetNumberOfRows

SpecSizing == InitSizing /\ [][NextSizing]_vars

\* the spawn loop alone, over larger row and core counts
InitPartition ==
    /\ pc = "spawn"
    /\ choice = "1"
    /\ lastInput = <<>>
    /\ rejected = 0
    /\ TOTAL_ROWS \in 1..MaxPartRows
    /\ total_cores \in 1..MaxPartCores
    /\ i = 0
    /\ processes = <<>>
    /\ j = 1
    /\ files = NoFiles
    /\ present = {}
    /\ preexisting = {}
    /\ openBy = NotOpen
    /\ k = 0
    /\ output = <<>>
    /\ warnings = <<>>
    /\ combineCalls = 0
    /\ prevOutput = <<>>

NextPartition == SpawnSkip \/ SpawnStart

SpecPartition == InitPartition /\ [][NextPartition]_vars

\* the script from the spawn loop on: TOTAL_ROWS was entered as a row count,
\* temp_files may hold files of an earlier run
Init ==
    /\ pc = "spawn"
    /\ choice = "1"
    /\ TOTAL_ROWS \in 1..MaxRows
    /\ lastInput = <<DigitChars[TOTAL_ROWS + 1]>>
    /\ rejected = 0
    /\ total_cores \in 1..MaxCores
    /\ i = 0
    /\ processes = <<>>
    /\ j = 1
    /\ preexisting \in SUBSET Indices
    /\ present = preexisting
    /\ files = [f \in Indices |->
                  IF f \in preexisting THEN WrittenFile("stale", f, 0, MaxStaleRows)
                  ELSE <<>>]
    /\ openBy = NotOpen
    /\ k = 0
    /\ output = <<>>
    /\ warnings = <<>>
    /\ combineCalls = 0
    /\ prevOutput = <<>>

Worker(p) == WorkerOpen(p) \/ WorkerWriteHeader(p) \/ WorkerWriteRow(p)
             \/ WorkerExit(p) \/ WorkerCrash(p) \/ WorkerHang(p)

Next == SpawnSkip \/ SpawnStart \/ (\E p \in Workers : Worker(p))
        \/ JoinOne \/ JoinDone
        \/ CombineStart \/ CombineOpenTemp \/ CombineMissing \/ CombineCopy

Spec == Init /\ [][Next]_vars

\* ---- properties
IsRow(l) == l.kind = "row"

DataRows(content) == SelectSeq(content, IsRow)

NoCrash == \A p \in Workers : processes[p].at # "crashed"

Warned == {warnings[x] : x \in 1..Len(warnings)}

\* the lines of the output file that carry the file index f
OutputFrom(f) == SelectSeq(output, LAMBDA l : l.file = f)

RECURSIVE SumRows(_)
SumRows(ps) == IF ps = <<>> THEN 0 ELSE Head(ps).num_rows + SumRows(Tail(ps))

\* C1: when no worker crashed and temp_files was empty before the run, the
\* finished run's output file is one header row followed by exactly the rows
\* 0..TOTAL_ROWS-1, each once, all written by this run's workers.
RowConservation ==
    (pc = "done" /\ preexisting = {} /\ NoCrash) =>
        /\ Len(output) = TOTAL_ROWS + 1
        /\ output[1].kind = "header"
        /\ \A x \in 1..TOTAL_ROWS :
              /\ output[x + 1].kind = "row"
              /\ output[x + 1].src = "run"
              /\ output[x + 1].n = x - 1

RowConservationWitness ==
    /\ pc = "done"
    /\ preexisting = {}
    /\ NoCrash
    /\ TOTAL_ROWS = MaxRows
    /\ Len(processes) >= 2

\* the ceiling of TOTAL_ROWS / num_processes, by its defining inequalities
CeilOfQuotient ==
    CHOOSE c \in 1..TOTAL_ROWS :
        (c - 1) * num_processes < TOTAL_ROWS /\ TOTAL_ROWS <= c * num_processes

\* C2: chunk_size is ceil(TOTAL_ROWS / num_processes); each started worker of
\* index w has start offset w * chunk_size and row count
\* min(chunk_size, TOTAL_ROWS - w * chunk_size), between 1 and chunk_size; the
\* ranges follow one another from 0 without gap or overlap; once the spawn loop
\* has ended they cover [0, TOTAL_ROWS), the row counts sum to TOTAL_ROWS and
\* every index not started had no row left.
Partitioning ==
    LET cs == CeilOfQuotient IN
    /\ \A p \in Workers :
          LET w == processes[p].temp_filename IN
          /\ processes[p].start_row = w * cs
          /\ processes[p].num_rows = Min(cs, TOTAL_ROWS - w * cs)
          /\ processes[p].num_rows >= 1
          /\ processes[p].num_rows <= cs
          /\ processes[p].start_row =
                IF p = 1 THEN 0
                ELSE processes[p - 1].start_row + processes[p - 1].num_rows
    /\ pc = "join" =>
          /\ Len(processes) >= 1
          /\ processes[Len(processes)].start_row + processes[Len(processes)].num_rows
                = TOTAL_ROWS
          /\ SumRows(processes) = TOTAL_ROWS
          /\ \A w \in Indices :
                (\A p \in Workers : processes[p].temp_filename # w)
                    => TOTAL_ROWS - w * cs <= 0

PartitioningWitness ==
    /\ pc = "join"
    /\ TOTAL_ROWS = 10
    /\ num_processes = 4
    /\ [p \in 1..Len(processes) |-> processes[p].num_rows] = <<3, 3, 3, 1>>

\* C3: with more workers than rows and no crashed worker, the finished run
\* started exactly TOTAL_ROWS workers of 1 row each, warned exactly
\* num_processes - TOTAL_ROWS times and wrote exactly TOTAL_ROWS data rows.
OverProvisioned ==
    (pc = "done" /\ num_processes > TOTAL_ROWS /\ NoCrash) =>
        /\ Len(processes) = TOTAL_ROWS
        /\ \A p \in Workers : processes[p].num_rows = 1
        /\ Len(warnings) = num_processes - TOTAL_ROWS
        /\ Len(DataRows(output)) = TOTAL_ROWS

\* C4: in file-size mode the returned row count is floor(S * 1024 * 1024 / 500)
\* for the accepted size S >= 1, so it is positive; nothing is returned before
\* an input is accepted, and the accepted input is a positive whole number.
SizingFileSize ==
    /\ pc \in {"get_choice", "get_rows"} => TOTAL_ROWS = 0
    /\ (pc = "spawn" /\ choice = "2") =>
          /\ IsInt(lastInput)
          /\ ParseInt(lastInput) >= 1
          /\ TOTAL_ROWS > 0
          /\ TOTAL_ROWS * 500 <= ParseInt(lastInput) * 1024 * 1024
          /\ ParseInt(lastInput) * 1024 * 1024 < (TOTAL_ROWS + 1) * 500

SizingFileSizeWitness ==
    /\ pc = "spawn"
    /\ choice = "2"
    /\ rejected >= 1
    /\ lastInput = <<"1">>
    /\ TOTAL_ROWS = 2097

AllIndices == [x \in 1..num_processes |-> x - 1]

\* C5 as stated: a second combine_files over the emptied temp_files warns once
\* per index and leaves the output file as the first call left it.
CombineTwiceSameOutput ==
    (pc = "done" /\ combineCalls >= 2) =>
        /\ warnings = AllIndices
        /\ output = prevOutput

\* C5 amended: a second combine_files over the emptied temp_files returns,
\* warns once per index in index order, and leaves the output file holding
\* the header row alone.
CombineTwiceHeaderOnly ==
    (pc = "done" /\ combineCalls >= 2) =>
        /\ warnings = AllIndices
        /\ present = {}
        /\ Len(output) = 1
        /\ output[1].kind = "header"

CombineTwiceWitness ==
    /\ pc = "done"
    /\ combineCalls = 2
    /\ num_processes >= 2
    /\ Len(prevOutput) > 2

\* C6 as stated, on a temp_files that was empty before the run: the chunk of
\* every crashed worker gets the missing-file warning and none of its rows
\* reaches the output file.
CrashIsMissingFile ==
    (pc = "done" /\ preexisting = {}) =>
        \A p \in Workers :
            processes[p].at = "crashed" =>
                /\ processes[p].temp_filename \in Warned
                /\ OutputFrom(processes[p].temp_filename) = <<>>

\* C6 amended: the join returns for a crashed worker and combine_files runs;
\* the chunk is warned about and contributes nothing only when the worker died
\* before creating its file and no such file was there before the run; when it
\* died after creating the file there is no warning and exactly the rows
\* written before the crash are copied; a file of an earlier run that the
\* worker never replaced is copied without a warning.
CrashHandling ==
    pc = "done" =>
        \A p \in Workers :
            processes[p].at = "crashed" =>
                LET f == processes[p].temp_filename IN
                IF processes[p].created
                THEN /\ f \notin Warned
                     /\ OutputFrom(f) =
                          [x \in 1..processes[p].written |->
                              RowLine("run", f, processes[p].start_row + x - 1)]
                ELSE IF f \in preexisting
                THEN /\ f \notin Warned
                     /\ OutputFrom(f) = DataRows(WrittenFile("stale", f, 0, MaxStaleRows))
                ELSE /\ f \in Warned
                     /\ OutputFrom(f) = <<>>

CrashHandlingWitness ==
    /\ pc = "done"
    /\ \E p \in Workers :
          /\ processes[p].at = "crashed"
          /\ processes[p].created
          /\ processes[p].written >= 1
    /\ \E q \in Workers :
          /\ processes[q].at = "crashed"
          /\ ~processes[q].created
          /\ processes[q].temp_filename \notin preexisting

\* C7: no temp file is open in two processes at once; distinct workers have
\* distinct temp file names; the rows in a temp file written during this run
\* are rows of the one worker the file was assigned to; combine_files has a
\* temp file open only when the worker it was assigned to has terminated.
ExclusiveOwnership ==
    /\ \A f \in Indices : Cardinality(openBy[f]) <= 1
    /\ \A p, q \in Workers :
          p # q => processes[p].temp_filename # processes[q].temp_filename
    /\ \A p \in Workers :
          LET f == processes[p].temp_filename IN
          /\ 0 \in openBy[f] => Terminated(p)
          /\ \A x \in 1..Len(files[f]) :
                (files[f][x].kind = "row" /\ files[f][x].src = "run") =>
                    /\ files[f][x].n >= processes[p].start_row
                    /\ files[f][x].n < processes[p].start_row + processes[p].num_rows

ExclusiveOwnershipWitness ==
    \E p, q \in Workers :
        /\ p # q
        /\ processes[p].at = "rows"
        /\ processes[q].at = "rows"
        /\ processes[p].written >= 1
        /\ processes[q].written >= 1

\* C8: the output file starts with its one header row; every other line is a
\* data row; the rows of a lower temp file index precede those of a higher
\* one and the rows of one temp file keep the order they were written in.
OutputOrdering ==
    output # <<>> =>
        /\ output[1].kind = "header"
        /\ \A x \in 2..Len(output) : output[x].kind = "row"
        /\ \A x, y \in 2..Len(output) :
              x < y =>
                 \/ output[x].file < output[y].file
                 \/ /\ output[x].file = output[y].file
                    /\ output[x].n < output[y].n

OutputOrderingWitness ==
    /\ pc = "done"
    /\ \E x, y \in 2..Len(output) : output[x].file < output[y].file
    /\ \E x, y \in 2..Len(output) : x < y /\ output[x].file = output[y].file

\* C9: combine_files is called at most once, and once when the script ends;
\* the output file is not written and no temp file is opened or removed by the
\* main script before every started worker has terminated and the spawn loop
\* is over; the join loop has passed only terminated workers; while a worker
\* hangs the script is not in combine_files nor past it.
JoinBarrier ==
    /\ combineCalls <= 1
    /\ pc = "done" => combineCalls = 1
    /\ (pc \in {"combine", "comb_loop", "comb_copy", "done"}
        \/ combineCalls > 0 \/ output # <<>>
        \/ \E f \in Indices : 0 \in openBy[f]) =>
           /\ i >= num_processes
           /\ \A p \in Workers : Terminated(p)
    /\ pc = "join" => \A p \in Workers : p < j => Terminated(p)
    /\ (\E p \in Workers : processes[p].at = "hung") =>
           pc \in {"spawn", "join"}

JoinBarrierWitness ==
    /\ pc = "join"
    /\ \E p, q \in Workers :
          /\ p < q
          /\ j = p
          /\ processes[p].at = "hung"
          /\ processes[q].at = "exited"

\* C10: no line of the output file comes from a temp file that was in
\* temp_files before the run.
OutputIsFresh == \A x \in 1..Len(output) : output[x].src # "stale"

====
